---- MODULE Spec2Model ----
(***************************************************************************)
(* django_sendfile.utils: the sendfile dispatcher.                         *)
(*                                                                         *)
(* A Python str is a sequence of one-character strings; a character        *)
(* outside ASCII is written by its code point ("U+00E9").  An optional     *)
(* value is a sequence of length at most one: <<>> is None and <<x>> is    *)
(* the value x, so the empty string is <<<<>>>> and differs from None.     *)
(***************************************************************************)
EXTENDS Integers, Sequences, FiniteSets, TLC

None == <<>>
Some(x) == <<x>>
IsNone(o) == o = <<>>
Val(o) == o[1]

\* ---------------------------------------------------------------- bounds
\* Request threads of the concurrent workload.
NumThreads == 2
\* The import counter saturates here (a history variable, not program state).
MaxImports == 2

\* ------------------------------------------------------------ characters
NonAscii == {"U+00E9", "U+0301", "U+4E2D"}

\* unicodedata.normalize('NFKD', c) of one character
NFKDChar(c) == IF c = "U+00E9" THEN <<"e", "U+0301">> ELSE <<c>>

\* str.lower() of one character
LowerChar(c) ==
    CASE c = "T" -> "t"
      [] c = "H" -> "h"
      [] c = "M" -> "m"
      [] c = "L" -> "l"
      [] c = "X" -> "x"
      [] OTHER -> c

\* urllib.parse.quote of one character: unreserved characters and "/" are
\* kept, every other character becomes the %XX of its UTF-8 bytes
QuoteChar(c) ==
    CASE c = "\"" -> <<"%", "2", "2">>
      [] c = "\\" -> <<"%", "5", "C">>
      [] c = " " -> <<"%", "2", "0">>
      [] c = ";" -> <<"%", "3", "B">>
      [] c = "=" -> <<"%", "3", "D">>
      [] c = "U+00E9" -> <<"%", "C", "3", "%", "A", "9">>
      [] c = "U+0301" -> <<"%", "C", "C", "%", "8", "1">>
      [] c = "U+4E2D" -> <<"%", "E", "4", "%", "B", "8", "%", "A", "D">>
      [] OTHER -> <<c>>

\* --------------------------------------------------------------- strings
RECURSIVE Concat(_)
\* ''.join(ss)
Concat(ss) == IF ss = <<>> THEN <<>> ELSE Head(ss) \o Concat(Tail(ss))

RECURSIVE JoinWith(_, _)
\* sep.join(ss)
JoinWith(sep, ss) ==
    IF ss = <<>> THEN <<>>
    ELSE IF Len(ss) = 1 THEN ss[1]
    ELSE ss[1] \o sep \o JoinWith(sep, Tail(ss))

StartsWith(s, p) == Len(s) >= Len(p) /\ SubSeq(s, 1, Len(p)) = p

\* number of (possibly overlapping) occurrences of p in s
Occurrences(s, p) ==
    Cardinality({i \in 1..Len(s) : i + Len(p) - 1 <= Len(s)
                                   /\ SubSeq(s, i, i + Len(p) - 1) = p})

RECURSIVE Split(_, _)
\* s.split(sep) for a one-character sep
Split(s, sep) ==
    IF \A i \in 1..Len(s) : s[i] # sep THEN <<s>>
    ELSE LET k == CHOOSE i \in 1..Len(s) :
                      s[i] = sep /\ \A j \in 1..(i - 1) : s[j] # sep
         IN <<SubSeq(s, 1, k - 1)>> \o Split(SubSeq(s, k + 1, Len(s)), sep)

\* s.replace(a, b) for a one-character a
Replace(s, a, b) == JoinWith(b, Split(s, a))

\* s.lower()
Lower(s) == [i \in 1..Len(s) |-> LowerChar(s[i])]

\* unicodedata.normalize('NFKD', s)
NFKD(s) == Concat([i \in 1..Len(s) |-> NFKDChar(s[i])])

\* An ASCII fallback that strips nothing
AsciiIgnore_keep(s) == s

\* s.encode('ascii', 'ignore').decode()
AsciiIgnore(s) == SelectSeq(s, LAMBDA c : c \notin NonAscii)

\* urllib.parse.quote(s)
quote(s) == Concat([i \in 1..Len(s) |-> QuoteChar(s[i])])

\* ----------------------------------------------------------------- paths
DOT == <<".">>
DOTDOT == <<".", ".">>
SLASH == <<"/">>

\* posixpath / pathlib: exactly two leading slashes are kept as "//"
InitialSlashes(s) ==
    IF ~StartsWith(s, SLASH) THEN 0
    ELSE IF StartsWith(s, <<"/", "/">>) /\ ~StartsWith(s, <<"/", "/", "/">>) THEN 2
    ELSE 1

Slashes(n) == [i \in 1..n |-> "/"]

\* pathlib.PurePosixPath(s): the anchor and the components, with empty and
\* "." components dropped and ".." components kept
PathOf(s) ==
    [anchor |-> Slashes(InitialSlashes(s)),
     parts |-> SelectSeq(Split(s, "/"), LAMBDA c : c # <<>> /\ c # DOT)]

\* str(path)
PathStr(p) ==
    IF p.anchor = <<>> /\ p.parts = <<>> THEN DOT
    ELSE p.anchor \o JoinWith(SLASH, p.parts)

\* path_root / filepath: an anchored right operand replaces the left one
JoinPath(a, b) ==
    IF b.anchor # <<>> THEN b
    ELSE [anchor |-> a.anchor, parts |-> a.parts \o b.parts]

RECURSIVE NormComps(_, _, _)
\* the loop of posixpath.normpath over the components
NormComps(comps, new, slashes) ==
    IF comps = <<>> THEN new
    ELSE LET comp == Head(comps)
             rest == Tail(comps)
         IN IF comp = <<>> \/ comp = DOT THEN NormComps(rest, new, slashes)
            ELSE IF comp # DOTDOT
                    \/ (slashes = 0 /\ new = <<>>)
                    \/ (new # <<>> /\ new[Len(new)] = DOTDOT)
                 THEN NormComps(rest, Append(new, comp), slashes)
            ELSE IF new # <<>>
                 THEN NormComps(rest, SubSeq(new, 1, Len(new) - 1), slashes)
            ELSE NormComps(rest, new, slashes)

\* os.path.normpath(s)
normpath(s) ==
    IF s = <<>> THEN DOT
    ELSE LET n == InitialSlashes(s)
             out == Slashes(n) \o JoinWith(SLASH, NormComps(Split(s, "/"), <<>>, n))
         IN IF out = <<>> THEN DOT ELSE out

IsPrefix(a, b) == Len(a) <= Len(b) /\ SubSeq(b, 1, Len(a)) = a

\* A containment test on the strings: str(p).startswith(str(other))
relative_to_startswith(p, other) == StartsWith(PathStr(p), PathStr(other))

\* path.relative_to(other) does not raise ValueError
relative_to(p, other) ==
    IF other.anchor = <<>> /\ other.parts = <<>>
    THEN p.anchor = <<>>
    ELSE p.anchor = other.anchor /\ IsPrefix(other.parts, p.parts)

\* path.name
PathName(p) == IF p.parts = <<>> THEN <<>> ELSE p.parts[Len(p.parts)]

\* ------------------------------------------------------ string literals
S_attachment == <<"a", "t", "t", "a", "c", "h", "m", "e", "n", "t">>
S_inline == <<"i", "n", "l", "i", "n", "e">>
S_filename_eq == <<"f", "i", "l", "e", "n", "a", "m", "e", "=">>
S_filename_star == <<"f", "i", "l", "e", "n", "a", "m", "e", "*", "=">>
S_utf8 == <<"U", "T", "F", "-", "8", "'", "'">>
S_sep == <<";", " ">>
S_charset == <<";", " ", "c", "h", "a", "r", "s", "e", "t", "=">>
S_text == <<"t", "e", "x", "t">>
S_octet_stream == <<"a", "p", "p", "l", "i", "c", "a", "t", "i", "o", "n", "/",
                    "o", "c", "t", "e", "t", "-", "s", "t", "r", "e", "a", "m">>
S_text_plain == <<"t", "e", "x", "t", "/", "p", "l", "a", "i", "n">>
S_application_pdf == <<"a", "p", "p", "l", "i", "c", "a", "t", "i", "o", "n", "/",
                       "p", "d", "f">>
S_gzip == <<"g", "z", "i", "p">>
QUOTE == <<"\"">>

\* ------------------------------------------------------------ mimetypes
\* s.rfind(c), 1-based, 0 when absent
RFind(s, c) ==
    IF \A i \in 1..Len(s) : s[i] # c THEN 0
    ELSE CHOOSE i \in 1..Len(s) : s[i] = c /\ \A j \in (i + 1)..Len(s) : s[j] # c

\* posixpath.splitext(p): <<root, ext>>; leading dots of the name are no extension
splitext(p) ==
    LET sepIndex == RFind(p, "/")
        dotIndex == RFind(p, ".")
    IN IF dotIndex > sepIndex /\ \E i \in (sepIndex + 1)..(dotIndex - 1) : p[i] # "."
       THEN <<SubSeq(p, 1, dotIndex - 1), SubSeq(p, dotIndex, Len(p))>>
       ELSE <<p, <<>>>>

\* mimetypes.encodings_map
EncodingsMap(ext) == IF ext = <<".", "g", "z">> THEN Some(S_gzip) ELSE None

\* mimetypes.types_map, looked up with the extension as given and lowered
TypesMap(ext) ==
    LET e == Lower(ext)
    IN CASE e = <<".", "t", "x", "t">> -> Some(S_text_plain)
         [] e = <<".", "p", "d", "f">> -> Some(S_application_pdf)
         [] OTHER -> None

\* mimetypes.guess_type(url) for a local path: <<type, encoding>>
guess_type(url) ==
    LET first == splitext(url)
        enc == EncodingsMap(first[2])
        ext == IF IsNone(enc) THEN first[2] ELSE splitext(first[1])[2]
    IN <<TypesMap(ext), enc>>

\* Python truthiness of an optional string
Truthy(o) == ~IsNone(o) /\ Val(o) # <<>>

\* a or b
Or(a, b) == IF Truthy(a) THEN a ELSE b

\* ------------------------------------------------------- pure helpers
\* _sanitize_path(filepath) under SENDFILE_ROOT = root (an optional string):
\* the exception raised ("" for none) and the path returned
_sanitize_path(root, filepath) ==
    IF IsNone(root)
    THEN [raised |-> "ImproperlyConfigured", value |-> None]
    ELSE LET path_root == PathOf(Val(root))
             filepath_abs ==
                 PathOf(normpath(PathStr(JoinPath(path_root, PathOf(filepath)))))
         IN IF relative_to(filepath_abs, path_root)
            THEN [raised |-> "", value |-> Some(filepath_abs)]
            ELSE [raised |-> "Http404", value |-> None]

\* A resolution in which the guess takes precedence over the override
ResolveMetadata_guessfirst(filepath_obj, mimetype, encoding) ==
    IF IsNone(mimetype) \/ IsNone(encoding)
    THEN LET guessed == guess_type(PathStr(filepath_obj))
         IN [mimetype |-> Or(Or(guessed[1], mimetype), Some(S_octet_stream)),
             encoding |-> Or(guessed[2], encoding),
             guessed |-> TRUE]
    ELSE [mimetype |-> mimetype, encoding |-> encoding, guessed |-> FALSE]

\* The mimetype and encoding sendfile hands to the backend, and whether
\* guess_type was called
ResolveMetadata(filepath_obj, mimetype, encoding) ==
    IF IsNone(mimetype) \/ IsNone(encoding)
    THEN LET guessed == guess_type(PathStr(filepath_obj))
         IN [mimetype |-> Or(Or(mimetype, guessed[1]), Some(S_octet_stream)),
             encoding |-> Or(encoding, guessed[2]),
             guessed |-> TRUE]
    ELSE [mimetype |-> mimetype, encoding |-> encoding, guessed |-> FALSE]

\* attachment_filename is None, False or a string
AF_None == [tag |-> "None", s |-> <<>>]
AF_False == [tag |-> "False", s |-> <<>>]
AF_Str(s) == [tag |-> "Str", s |-> s]

\* The parts list that sendfile joins into Content-Disposition
DispositionParts(attachment, attachment_filename, filepath_obj) ==
    LET first == IF attachment THEN S_attachment ELSE S_inline
        af == IF attachment_filename.tag = "None"
              THEN AF_Str(PathName(filepath_obj))
              ELSE attachment_filename
    IN IF af.tag = "Str" /\ af.s # <<>>
       THEN LET escaped == Replace(Replace(af.s, "\\", <<"\\", "\\">>),
                                   "\"", <<"\\", "\"">>)
                ascii_filename == AsciiIgnore(NFKD(escaped))
            IN <<first, S_filename_eq \o QUOTE \o ascii_filename \o QUOTE>>
               \o (IF ascii_filename # escaped
                   THEN <<S_filename_star \o S_utf8 \o quote(escaped)>>
                   ELSE <<>>)
       ELSE <<first>>

\* The Content-Disposition value sendfile sets
ContentDisposition(attachment, attachment_filename, filepath_obj) ==
    JoinWith(S_sep, DispositionParts(attachment, attachment_filename, filepath_obj))

\* A Content-Type whose test for a textual type is case-sensitive
ContentType_casesensitive(mimetype, encoding) ==
    IF Truthy(encoding) /\ StartsWith(Val(mimetype), S_text)
    THEN Val(mimetype) \o S_charset \o Val(encoding)
    ELSE Val(mimetype)

\* The Content-Type value sendfile sets when the backend left it unset
ContentType(mimetype, encoding) ==
    IF Truthy(encoding) /\ StartsWith(Lower(Val(mimetype)), S_text)
    THEN Val(mimetype) \o S_charset \o Val(encoding)
    ELSE Val(mimetype)

\* ---------------------------------------------------------- environment
P_root == <<"/", "s", "r", "v", "/", "f">>
P_slash == <<"/">>
P_dotdot == <<"/", "s", "r", "v", "/", "x", "/", ".", ".", "/", "f">>

F_empty == <<>>
F_a == <<"a", ".", "t", "x", "t">>
F_gz == <<"b", ".", "g", "z">>
F_cafe == <<"c", "U+00E9", ".", "p", "d", "f">>
F_gone == <<"g", ".", "t", "x", "t">>
F_up == <<".", ".", "/", "x">>
F_sibling == <<".", ".", "/", "f", "e", "/", "a", ".", "t", "x", "t">>
F_abs_out == <<"/", "e", "t", "c", "/", "p">>
F_abs_in == P_root \o SLASH \o F_a
F_two_slashes == SLASH \o F_abs_in
F_updown == <<"d", "/", ".", ".", "/", ".", "/", "a", ".", "t", "x", "t">>

\* The values SENDFILE_ROOT may be configured with (None: not set)
Roots == {None, Some(P_root), Some(P_slash), Some(P_dotdot)}

\* Importable backend modules
Backends == {"development", "nginx"}

\* The files that the environment may remove while the process runs
Volatile == {P_root \o SLASH \o F_a}

\* The files on disk when the process starts; g.txt is on no disk
InitialDisk ==
    {P_slash, P_root, <<"/", "a", ".", "t", "x", "t">>, <<"/", "x">>,
     P_root \o SLASH \o F_a, P_root \o SLASH \o F_gz, P_root \o SLASH \o F_cafe,
     <<"/", "s", "r", "v", "/", "x">>,
     <<"/", "s", "r", "v", "/", "f", "e", "/", "a", ".", "t", "x", "t">>,
     F_abs_out, F_two_slashes}

\* filepath_obj.stat().st_size
FileSize(path) == 100 + Len(path)

HeaderNames == {"Content-Disposition", "Content-Length", "Content-Type",
                "Content-Encoding"}

\* What a backend may have put under a header of its response
BackendValue(h) ==
    CASE h = "Content-Disposition" -> <<"i", "n", "l", "i", "n", "e", ";", "x">>
      [] h = "Content-Length" -> 1
      [] h = "Content-Type" -> <<"i", "m", "a", "g", "e", "/", "p", "n", "g">>
      [] h = "Content-Encoding" -> <<"b", "r">>

\* The headers of a backend response that sets exactly the headers in set
BackendHeaders(set) ==
    [h \in HeaderNames |-> IF h \in set THEN Some(BackendValue(h)) ELSE None]

\* A response: notmodified is an HttpResponseNotModified
Response(kind, set) == [kind |-> kind, headers |-> BackendHeaders(set)]

AllResponses ==
    {Response("ok", set) : set \in SUBSET HeaderNames}
    \cup {Response("notmodified", {}), Response("notmodified", HeaderNames)}

FewResponses == {Response("ok", {})}

Request(filename, attachment, attachment_filename, mimetype, encoding) ==
    [filename |-> filename, attachment |-> attachment,
     attachment_filename |-> attachment_filename,
     mimetype |-> mimetype, encoding |-> encoding]

Filenames == {F_empty, F_a, F_gz, F_cafe, F_gone, F_up, F_sibling, F_abs_out,
              F_abs_in, F_two_slashes, F_updown}

Mimetypes == {None, Some(<<>>), Some(S_text_plain),
              Some(<<"T", "e", "x", "t", "/", "H", "T", "M", "L">>),
              Some(S_application_pdf)}

Encodings == {None, Some(<<>>), Some(S_gzip)}

AttachmentFilenames ==
    {AF_None, AF_False, AF_Str(<<>>), AF_Str(<<"r", ".", "t", "x", "t">>),
     AF_Str(<<"q", "\"", "\\">>), AF_Str(<<"U+4E2D", "e">>)}

\* The calls of the sequential workload: every filename with the default
\* arguments, every override pair and every disposition on a few files
AllRequests ==
    {Request(f, FALSE, AF_None, None, None) : f \in Filenames}
    \cup {Request(f, FALSE, AF_None, m, e) :
            f \in {F_a, F_gz}, m \in Mimetypes, e \in Encodings}
    \cup {Request(f, a, af, None, None) :
            f \in {F_empty, F_a, F_cafe}, a \in BOOLEAN, af \in AttachmentFilenames}

FewRequests == {Request(F_a, FALSE, AF_None, None, None)}

\* ----------------------------------------------------------------- state
Threads == 1..NumThreads

VARIABLES
    settings,   \* django.conf.settings: SENDFILE_ROOT, SENDFILE_BACKEND
    cache,      \* the lru_cache of _get_sendfile: None or the cached handle
    disk,       \* the paths that exist
    workload,   \* the requests callers make, the responses backends give and
                \* the modules SENDFILE_BACKEND is set to at run time
    pc,         \* where each thread is in sendfile
    args,       \* the arguments of each thread's call
    frame,      \* the locals of each thread's call
    hist,       \* per call: what the cache lookup saw, whether guess_type ran,
                \* the backend's arguments and its response as it returned it
    imports     \* how many times import_module ran (saturating)

vars == <<settings, cache, disk, workload, pc, args, frame, hist, imports>>

NoArgs == Request(<<>>, FALSE, AF_None, None, None)

NoFrame ==
    [filepath_obj |-> None, backend |-> None, _sendfile |-> None,
     mimetype |-> None, encoding |-> None, response |-> None, raised |-> ""]

NoHist == [sent |-> None, orig |-> None, guessed |-> FALSE, seen |-> None]

TypeOK ==
    /\ settings.SENDFILE_ROOT \in Roots
    /\ settings.SENDFILE_BACKEND \in {None} \cup {Some(b) : b \in Backends}
    /\ cache \in {None} \cup {Some(b) : b \in Backends}
    /\ disk \subseteq InitialDisk
    /\ pc \in [Threads -> {"off", "idle", "sanitize", "get_sendfile", "resolve",
                           "import", "exists", "backend", "disposition",
                           "length", "type", "done"}]
    /\ imports \in 0..MaxImports

\* One thread serving every kind of request
Init ==
    /\ settings \in [SENDFILE_ROOT : Roots,
                     SENDFILE_BACKEND : {None, Some("development")}]
    /\ cache = None
    /\ disk = InitialDisk
    /\ workload = [requests |-> AllRequests, responses |-> AllResponses,
                   backends |-> {"development"}]
    /\ pc = [t \in Threads |-> IF t = 1 THEN "idle" ELSE "off"]
    /\ args = [t \in Threads |-> NoArgs]
    /\ frame = [t \in Threads |-> NoFrame]
    /\ hist = [t \in Threads |-> NoHist]
    /\ imports = 0

\* Every thread serving a few requests concurrently
ConcInit ==
    /\ settings \in [SENDFILE_ROOT : {Some(P_root)},
                     SENDFILE_BACKEND : {None, Some("development")}]
    /\ cache = None
    /\ disk = InitialDisk
    /\ workload = [requests |-> FewRequests, responses |-> FewResponses,
                   backends |-> Backends]
    /\ pc = [t \in Threads |-> "idle"]
    /\ args = [t \in Threads |-> NoArgs]
    /\ frame = [t \in Threads |-> NoFrame]
    /\ hist = [t \in Threads |-> NoHist]
    /\ imports = 0

\* --------------------------------------------------------------- actions
\* The call ends by raising exc
Raise(t, exc) ==
    /\ pc' = [pc EXCEPT ![t] = "done"]
    /\ frame' = [frame EXCEPT ![t].raised = exc]

\* A caller enters sendfile(request, filename, ...)
Call(t) ==
    /\ pc[t] = "idle"
    /\ \E r \in workload.requests : args' = [args EXCEPT ![t] = r]
    /\ pc' = [pc EXCEPT ![t] = "sanitize"]
    /\ UNCHANGED <<settings, cache, disk, workload, frame, hist, imports>>

\* filepath_obj = _sanitize_path(filename)
Sanitize(t) ==
    /\ pc[t] = "sanitize"
    /\ LET res == _sanitize_path(settings.SENDFILE_ROOT, args[t].filename)
       IN IF res.raised # ""
          THEN Raise(t, res.raised)
          ELSE /\ frame' = [frame EXCEPT ![t].filepath_obj = res.value]
               /\ pc' = [pc EXCEPT ![t] = "get_sendfile"]
    /\ UNCHANGED <<settings, cache, disk, workload, args, hist, imports>>

\* _get_sendfile without the lru_cache
CacheHit_never(c) == FALSE

\* Whether the lru_cache wrapper of _get_sendfile finds a cached result
CacheHit(c) == ~IsNone(c)

\* _sendfile = _get_sendfile(): the lru_cache wrapper looks the call up and
\* runs the function only on a miss
GetSendfile(t) ==
    /\ pc[t] = "get_sendfile"
    /\ IF CacheHit(cache)
       THEN /\ frame' = [frame EXCEPT ![t]._sendfile = cache]
            /\ pc' = [pc EXCEPT ![t] = "exists"]
       ELSE /\ pc' = [pc EXCEPT ![t] = "resolve"]
            /\ frame' = frame
    /\ hist' = [hist EXCEPT ![t].seen = cache]
    /\ UNCHANGED <<settings, cache, disk, workload, args, imports>>

\* _get_sendfile's body: read SENDFILE_BACKEND; an exception is not cached
ReadBackend(t) ==
    /\ pc[t] = "resolve"
    /\ IF IsNone(settings.SENDFILE_BACKEND)
       THEN Raise(t, "ImproperlyConfigured")
       ELSE /\ frame' = [frame EXCEPT ![t].backend = settings.SENDFILE_BACKEND]
            /\ pc' = [pc EXCEPT ![t] = "import"]
    /\ UNCHANGED <<settings, cache, disk, workload, args, hist, imports>>

\* _get_sendfile's body: import the module; the wrapper stores the result
ImportBackend(t) ==
    /\ pc[t] = "import"
    /\ frame' = [frame EXCEPT ![t]._sendfile = frame[t].backend]
    /\ cache' = frame[t].backend
    /\ imports' = IF imports < MaxImports THEN imports + 1 ELSE imports
    /\ pc' = [pc EXCEPT ![t] = "exists"]
    /\ UNCHANGED <<settings, disk, workload, args, hist>>

\* sendfile without the existence check
exists_always(filepath_obj, d) == TRUE

\* filepath_obj.exists() on the disk d
exists(filepath_obj, d) == PathStr(filepath_obj) \in d

\* The existence check, then the mimetype and encoding to send
ExistsAndGuess(t) ==
    /\ pc[t] = "exists"
    /\ IF ~exists(Val(frame[t].filepath_obj), disk)
       THEN Raise(t, "Http404") /\ hist' = hist
       ELSE LET md == ResolveMetadata(Val(frame[t].filepath_obj),
                                      args[t].mimetype, args[t].encoding)
            IN /\ frame' = [frame EXCEPT ![t].mimetype = md.mimetype,
                                         ![t].encoding = md.encoding]
               /\ hist' = [hist EXCEPT ![t].guessed = md.guessed]
               /\ pc' = [pc EXCEPT ![t] = "backend"]
    /\ UNCHANGED <<settings, cache, disk, workload, args, imports>>

\* response = _sendfile(request, filepath_obj, mimetype=..., encoding=...)
Backend(t) ==
    /\ pc[t] = "backend"
    /\ \E resp \in workload.responses :
          /\ frame' = [frame EXCEPT ![t].response = Some(resp)]
          /\ hist' = [hist EXCEPT
                        ![t].orig = Some(resp),
                        ![t].sent = Some([handle |-> Val(frame[t]._sendfile),
                                          path |-> Val(frame[t].filepath_obj),
                                          mimetype |-> frame[t].mimetype,
                                          encoding |-> frame[t].encoding])]
    /\ pc' = [pc EXCEPT ![t] = "disposition"]
    /\ UNCHANGED <<settings, cache, disk, workload, args, imports>>

\* sendfile without the 304 short cut
IsNotModified_never(resp) == FALSE

\* isinstance(response, HttpResponseNotModified)
IsNotModified(resp) == resp.kind = "notmodified"

\* response[name] = value
SetHeader(resp, name, value) == [resp EXCEPT !.headers[name] = Some(value)]

\* The 304 short cut, else Content-Disposition
Disposition(t) ==
    /\ pc[t] = "disposition"
    /\ LET response == Val(frame[t].response)
       IN IF IsNotModified(response)
          THEN /\ pc' = [pc EXCEPT ![t] = "done"]
               /\ frame' = frame
          ELSE /\ frame' = [frame EXCEPT ![t].response =
                              Some(SetHeader(response, "Content-Disposition",
                                   ContentDisposition(args[t].attachment,
                                                      args[t].attachment_filename,
                                                      Val(frame[t].filepath_obj))))]
               /\ pc' = [pc EXCEPT ![t] = "length"]
    /\ UNCHANGED <<settings, cache, disk, workload, args, hist, imports>>

\* A stat() failure reported as the not-found error of the existence check
StatError_Http404 == "Http404"

\* What filepath_obj.stat() raises when the file is gone
StatError == "FileNotFoundError"

\* Content-Length, from stat() when the backend set none
Length(t) ==
    /\ pc[t] = "length"
    /\ LET response == Val(frame[t].response)
           path == PathStr(Val(frame[t].filepath_obj))
       IN IF ~IsNone(response.headers["Content-Length"])
          THEN /\ frame' = frame
               /\ pc' = [pc EXCEPT ![t] = "type"]
          ELSE IF path \notin disk
          THEN Raise(t, StatError)
          ELSE /\ frame' = [frame EXCEPT ![t].response =
                              Some(SetHeader(response, "Content-Length", FileSize(path)))]
               /\ pc' = [pc EXCEPT ![t] = "type"]
    /\ UNCHANGED <<settings, cache, disk, workload, args, hist, imports>>

\* A Content-Type block that sets the header whether or not it is present
WithContentType_always(response, mimetype, encoding) ==
    SetHeader(response, "Content-Type", ContentType(mimetype, encoding))

\* The response after the Content-Type block
WithContentType(response, mimetype, encoding) ==
    IF IsNone(response.headers["Content-Type"])
    THEN SetHeader(response, "Content-Type", ContentType(mimetype, encoding))
    ELSE response

\* A Content-Encoding block that sets the header when it is absent
WithContentEncoding_whenabsent(response, encoding) ==
    IF Truthy(encoding) /\ IsNone(response.headers["Content-Encoding"])
    THEN SetHeader(response, "Content-Encoding", Val(encoding))
    ELSE response

\* The response after the Content-Encoding block
WithContentEncoding(response, encoding) ==
    IF Truthy(encoding) /\ ~IsNone(response.headers["Content-Encoding"])
    THEN SetHeader(response, "Content-Encoding", Val(encoding))
    ELSE response

\* Content-Type and Content-Encoding, then return response
TypeAndEncoding(t) ==
    /\ pc[t] = "type"
    /\ frame' = [frame EXCEPT ![t].response =
                   Some(WithContentEncoding(
                          WithContentType(Val(frame[t].response),
                                          frame[t].mimetype, frame[t].encoding),
                          frame[t].encoding))]
    /\ pc' = [pc EXCEPT ![t] = "done"]
    /\ UNCHANGED <<settings, cache, disk, workload, args, hist, imports>>

\* The caller is done with the result and is free for its next request
Finish(t) ==
    /\ pc[t] = "done"
    /\ pc' = [pc EXCEPT ![t] = "idle"]
    /\ args' = [args EXCEPT ![t] = NoArgs]
    /\ frame' = [frame EXCEPT ![t] = NoFrame]
    /\ hist' = [hist EXCEPT ![t] = NoHist]
    /\ UNCHANGED <<settings, cache, disk, workload, imports>>

\* The environment removes a file
Unlink ==
    /\ \E p \in Volatile \cap disk : disk' = disk \ {p}
    /\ UNCHANGED <<settings, cache, workload, pc, args, frame, hist, imports>>

\* settings.SENDFILE_BACKEND is changed at run time
SetBackend ==
    /\ \E b \in {None} \cup {Some(m) : m \in workload.backends} :
          /\ b # settings.SENDFILE_BACKEND
          /\ settings' = [settings EXCEPT !.SENDFILE_BACKEND = b]
    /\ UNCHANGED <<cache, disk, workload, pc, args, frame, hist, imports>>

Next ==
    \/ \E t \in Threads :
          \/ Call(t)
          \/ Sanitize(t)
          \/ GetSendfile(t)
          \/ ReadBackend(t)
          \/ ImportBackend(t)
          \/ ExistsAndGuess(t)
          \/ Backend(t)
          \/ Disposition(t)
          \/ Length(t)
          \/ TypeAndEncoding(t)
          \/ Finish(t)
    \/ Unlink
    \/ SetBackend

Spec == Init /\ [][Next]_vars

ConcSpec == ConcInit /\ [][Next]_vars

\* ---------------------------------------------------------------- claims
Started(t) == pc[t] \notin {"off", "idle"}
Returned(t) == pc[t] = "done" /\ frame[t].raised = ""
Raised(t, exc) == pc[t] = "done" /\ frame[t].raised = exc
Invoked(t) == ~IsNone(hist[t].sent)

RECURSIVE Walk(_, _)
\* Where a walk over the components ends, starting at the directories in at:
\* ".." leaves a directory (the top has none to leave), "." and "" stay
Walk(comps, at) ==
    IF comps = <<>> THEN at
    ELSE LET c == Head(comps)
         IN Walk(Tail(comps),
                 IF c = <<>> \/ c = DOT THEN at
                 ELSE IF c = DOTDOT
                      THEN (IF at = <<>> THEN at ELSE SubSeq(at, 1, Len(at) - 1))
                      ELSE Append(at, c))

\* The place an absolute path string names: its kind of root and directories
Location(s) == [top |-> InitialSlashes(s), dirs |-> Walk(Split(s, "/"), <<>>)]

\* The place a request for filename names under root
Target(root, filename) ==
    IF StartsWith(filename, SLASH) THEN Location(filename)
    ELSE [top |-> Location(root).top,
          dirs |-> Walk(Split(filename, "/"), Location(root).dirs)]

\* loc is the place of root or a place below it
Inside(loc, root) ==
    /\ loc.top = Location(root).top
    /\ Len(Location(root).dirs) <= Len(loc.dirs)
    /\ \A i \in 1..Len(Location(root).dirs) : loc.dirs[i] = Location(root).dirs[i]

C2_NotModifiedUnchanged ==
    \A t \in Threads :
       Invoked(t) /\ Val(hist[t].orig).kind = "notmodified" =>
          /\ frame[t].response = hist[t].orig
          /\ pc[t] \in {"disposition", "done"}
          /\ pc[t] = "done" => Returned(t)

\* C2 witness: a 304 returned to a call that asked for an attachment with a
\* file name
C2_Witness ==
    \E t \in Threads :
       /\ Returned(t)
       /\ Val(hist[t].orig).kind = "notmodified"
       /\ args[t].attachment
       /\ args[t].attachment_filename.tag = "Str"
       /\ args[t].attachment_filename.s # <<>>

\* The header h of the response the call holds, and as the backend gave it
Now(t, h) == Val(frame[t].response).headers[h]
Orig(t, h) == Val(hist[t].orig).headers[h]

C5_NoMutationOnError ==
    \A t \in Threads :
       pc[t] = "done" /\ frame[t].raised # "" =>
          IsNone(frame[t].response) \/ frame[t].response = hist[t].orig

\* C5 as amended: a call that ends in ImproperlyConfigured or Http404 has not
\* invoked the backend and holds no response; the only other error is the
\* failure of stat() on a file that is gone, after the backend returned, and
\* there Content-Disposition alone has been set on the response.
C5_NoMutationBeforeBackend ==
    \A t \in Threads :
       pc[t] = "done" /\ frame[t].raised # "" =>
          \/ /\ frame[t].raised \in {"ImproperlyConfigured", "Http404"}
             /\ IsNone(frame[t].response)
             /\ ~Invoked(t)
          \/ /\ frame[t].raised = "FileNotFoundError"
             /\ Invoked(t)
             /\ PathStr(Val(hist[t].sent).path) \notin disk
             /\ \A h \in HeaderNames \ {"Content-Disposition"} : Now(t, h) = Orig(t, h)
             /\ ~IsNone(Now(t, "Content-Disposition"))

\* C5 witness: stat() failed on a file removed after the existence check
C5_Witness ==
    \E t \in Threads :
       /\ Raised(t, "FileNotFoundError")
       /\ frame[t].response # hist[t].orig

\* C6 as stated: a call for a path inside the root that is on no disk ends in
\* Http404 without the backend invoked, whatever SENDFILE_BACKEND is.
C6_NotFoundFirst ==
    \A t \in Threads :
       /\ pc[t] = "done"
       /\ ~IsNone(frame[t].filepath_obj)
       /\ PathStr(Val(frame[t].filepath_obj)) \notin InitialDisk
       => Raised(t, "Http404") /\ ~Invoked(t)

\* C6 as amended: such a call never invokes the backend; the backend is
\* looked up before the existence check, so the call ends in Http404 when the
\* lookup gave a handle and in ImproperlyConfigured when it did not (no
\* handle cached and SENDFILE_BACKEND unset).
C6_NotFoundAfterLookup ==
    \A t \in Threads :
       /\ pc[t] = "done"
       /\ ~IsNone(frame[t].filepath_obj)
       /\ PathStr(Val(frame[t].filepath_obj)) \notin InitialDisk
       => /\ ~Invoked(t)
          /\ IF IsNone(frame[t]._sendfile)
             THEN Raised(t, "ImproperlyConfigured") /\ IsNone(hist[t].seen)
             ELSE Raised(t, "Http404")

\* C6 witness: the call for g.txt, which is on no disk, ended in
\* ImproperlyConfigured
C6_Witness ==
    \E t \in Threads :
       /\ args[t].filename = F_gone
       /\ Raised(t, "ImproperlyConfigured")
       /\ ~IsNone(frame[t].filepath_obj)

\* charset is appended: there is an encoding, it is not empty, and the first
\* four characters of the type are t, e, x, t in either case
Textual(m, e) ==
    /\ ~IsNone(e)
    /\ Len(Val(e)) > 0
    /\ Len(m) >= 4
    /\ m[1] \in {"t", "T"} /\ m[2] \in {"e", "E"}
    /\ m[3] \in {"x", "X"} /\ m[4] \in {"t", "T"}

\* C7: on a returned response that is not a 304, Content-Length is the
\* backend's value or else the size of the file, and Content-Type is the
\* backend's value or else the resolved mimetype, with "; charset=" and the
\* encoding appended exactly when the encoding is not empty and the type is
\* textual.
C7_LengthAndType ==
    \A t \in Threads :
       Returned(t) /\ Val(hist[t].orig).kind = "ok" =>
          LET sent == Val(hist[t].sent)
              m == Val(sent.mimetype)
          IN /\ Now(t, "Content-Length") =
                   (IF IsNone(Orig(t, "Content-Length"))
                    THEN Some(FileSize(PathStr(sent.path)))
                    ELSE Orig(t, "Content-Length"))
             /\ Now(t, "Content-Type") =
                   (IF ~IsNone(Orig(t, "Content-Type")) THEN Orig(t, "Content-Type")
                    ELSE IF Textual(m, sent.encoding)
                    THEN Some(m \o S_charset \o Val(sent.encoding))
                    ELSE Some(m))

\* C7 witness: Text/HTML with gzip on a response whose type and length the
\* backend left unset
C7_Witness ==
    \E t \in Threads :
       /\ Returned(t)
       /\ hist[t].orig = Some(Response("ok", {}))
       /\ args[t].mimetype = Some(<<"T", "e", "x", "t", "/", "H", "T", "M", "L">>)
       /\ Val(hist[t].sent).encoding = Some(S_gzip)

\* What guess_type gives for the path sent to the backend
Guess(t) == guess_type(PathStr(Val(hist[t].sent).path))

\* C8 as stated: an override is passed to the backend unchanged, a field with
\* no override is filled from the guess (the mimetype with
\* application/octet-stream when the guess has none), and guess_type is
\* called exactly when an override is missing.
C8_OverrideWins ==
    \A t \in Threads :
       Invoked(t) =>
          LET sent == Val(hist[t].sent)
              m == args[t].mimetype
              e == args[t].encoding
          IN /\ sent.mimetype =
                   (IF ~IsNone(m) THEN m
                    ELSE IF ~IsNone(Guess(t)[1]) THEN Guess(t)[1]
                    ELSE Some(S_octet_stream))
             /\ sent.encoding = (IF ~IsNone(e) THEN e ELSE Guess(t)[2])
             /\ hist[t].guessed <=> (IsNone(m) \/ IsNone(e))

\* C8 as amended: the same for overrides that are not the empty string; an
\* empty string is passed through only when both overrides are given, and
\* counts as no override when the other one is missing.
C8_NonEmptyOverrideWins ==
    \A t \in Threads :
       Invoked(t) =>
          LET sent == Val(hist[t].sent)
              m == args[t].mimetype
              e == args[t].encoding
              both == ~IsNone(m) /\ ~IsNone(e)
              given(o) == ~IsNone(o) /\ (both \/ Len(Val(o)) > 0)
          IN /\ sent.mimetype =
                   (IF given(m) THEN m
                    ELSE IF ~IsNone(Guess(t)[1]) THEN Guess(t)[1]
                    ELSE Some(S_octet_stream))
             /\ sent.encoding = (IF given(e) THEN e ELSE Guess(t)[2])
             /\ hist[t].guessed <=> ~both

\* C8 witness: b.gz sent with the mimetype override text/plain and the
\* encoding filled from the guess
C8_Witness ==
    \E t \in Threads :
       /\ Invoked(t)
       /\ args[t].filename = F_gz
       /\ args[t].mimetype = Some(S_text_plain)
       /\ IsNone(args[t].encoding)
       /\ Val(hist[t].sent).mimetype = Some(S_text_plain)
       /\ Val(hist[t].sent).encoding = Some(S_gzip)

\* Content-Disposition has been set on the response of the call
DispositionSet(t) ==
    Invoked(t) /\ Val(hist[t].orig).kind = "ok" /\ pc[t] \in {"length", "type", "done"}

\* The display file name of the call, for a policy that is not omit
Display(t) ==
    IF args[t].attachment_filename.tag = "None"
    THEN PathName(Val(hist[t].sent).path)
    ELSE args[t].attachment_filename.s

FirstToken(t) == IF args[t].attachment THEN S_attachment ELSE S_inline

\* value carries one quoted ASCII filename parameter, and the filename*
\* parameter exactly when display has a character outside ASCII
NamedDisposition(value, display) ==
    /\ Occurrences(value, S_filename_eq \o QUOTE) = 1
    /\ \A i \in 1..Len(value) : value[i] \notin NonAscii
    /\ Occurrences(value, S_filename_star) =
          (IF \E i \in 1..Len(display) : display[i] \in NonAscii THEN 1 ELSE 0)
    /\ Occurrences(value, S_filename_star \o S_utf8) = Occurrences(value, S_filename_star)

\* C9 as stated: Content-Disposition starts with attachment or inline as
\* asked; under the omit policy it is that token alone, and for every other
\* display file name it has one quoted ASCII filename parameter, with
\* filename*=UTF-8'' exactly when the name has a non-ASCII character.
C9_Disposition ==
    \A t \in Threads :
       DispositionSet(t) =>
          LET value == Val(Now(t, "Content-Disposition"))
          IN /\ StartsWith(value, FirstToken(t))
             /\ IF args[t].attachment_filename.tag = "False"
                THEN value = FirstToken(t)
                ELSE NamedDisposition(value, Display(t))

\* C9 as amended: the same for display file names that are not empty; an
\* empty one (the string "" given, or the base name of the path "/") gives
\* the first token alone, as the omit policy does.
C9_NonEmptyDisposition ==
    \A t \in Threads :
       DispositionSet(t) =>
          LET value == Val(Now(t, "Content-Disposition"))
          IN /\ StartsWith(value, FirstToken(t))
             /\ IF args[t].attachment_filename.tag = "False" \/ Display(t) = <<>>
                THEN value = FirstToken(t)
                ELSE NamedDisposition(value, Display(t))

\* C9 witness: the attachment c<U+00E9>.pdf, named after the path
C9_Witness ==
    \E t \in Threads :
       /\ DispositionSet(t)
       /\ args[t].attachment
       /\ args[t].attachment_filename = AF_None
       /\ args[t].filename = F_cafe
       /\ Occurrences(Val(Now(t, "Content-Disposition")), S_filename_star) = 1

\* C10: Content-Encoding is on the returned response exactly when it was on
\* the response the backend produced.
C10_EncodingNeverEstablished ==
    \A t \in Threads :
       Returned(t) /\ Invoked(t) =>
          (IsNone(Now(t, "Content-Encoding")) <=> IsNone(Orig(t, "Content-Encoding")))

\* C10 witness: b.gz returned with the encoding gzip resolved and no
\* Content-Encoding
C10_Witness ==
    \E t \in Threads :
       /\ Returned(t)
       /\ Val(hist[t].orig).kind = "ok"
       /\ Val(hist[t].sent).encoding = Some(S_gzip)
       /\ IsNone(Now(t, "Content-Encoding"))

\* C4 as stated: import_module runs at most once in the process.
C4_ResolvedOnce == imports <= 1

\* C4 as amended: a caller that finds a handle in the cache takes it without
\* reading SENDFILE_BACKEND or importing, whatever SENDFILE_BACKEND is by
\* then; a caller that finds none resolves on its own and takes the handle of
\* the setting it read; a handle once cached is never dropped.
C4_CachedHandleReused ==
    /\ \A t \in Threads :
          /\ ~IsNone(hist[t].seen) =>
                /\ pc[t] \notin {"get_sendfile", "resolve", "import"}
                /\ IsNone(frame[t].backend)
                /\ frame[t]._sendfile = hist[t].seen
          /\ Invoked(t) /\ IsNone(hist[t].seen) =>
                /\ ~IsNone(frame[t].backend)
                /\ Val(hist[t].sent).handle = Val(frame[t].backend)
    /\ imports > 0 => ~IsNone(cache)

\* C4 witness: two imports have run, and a caller has been served by the
\* cached development handle while SENDFILE_BACKEND says nginx
C4_Witness ==
    /\ imports = 2
    /\ settings.SENDFILE_BACKEND = Some("nginx")
    /\ \E t \in Threads :
          /\ Returned(t)
          /\ hist[t].seen = Some("development")
          /\ Val(hist[t].sent).handle = "development"

====
